---- MODULE Spec2Model ----
(***************************************************************************)
(* The two-factor enrolment wizard of the web client:                      *)
(* apps/web/src/components/dialogs/multifactordialog.tsx.                  *)
(*                                                                         *)
(* The state is the React state of MultifactorDialog (step, error), the   *)
(* state of the step body that is mounted (selection, send-code flags,     *)
(* phone input, recovery codes) and the calls to db.mfa / db.user that are *)
(* still awaiting their response.  Every call remembers the closure it     *)
(* was started from (the step descriptor and the primaryMethod prop) and   *)
(* whether its step body and its dialog are still mounted: a state setter  *)
(* of an unmounted component does nothing.                                 *)
(***************************************************************************)
EXTENDS Integers, Sequences, FiniteSets, TLC

VARIABLES
    open,           \* the dialog is mounted
    primaryMethod,  \* props.primaryMethod of the session
    step,           \* useState: the current step descriptor
    error,          \* useState: the wizard's error message
    selected,       \* ChooseAuthenticator: useSessionState("selectedAuthenticator")
    body,           \* local state of the mounted step body
    inflight,       \* calls awaiting a response, in order of issue
    closes,         \* per session opened so far, the number of its onClose calls
    relaunch,       \* argument of the pending setTimeout of the relaunch button
    exported,       \* what the handler that ran last exported: the artifact of Copy or Download
    newest,         \* history: the answer to the codes call the mounted step body made last
    enrolled,       \* the service: <<operation, method>> of the accepted calls of the session
    visited,        \* history: step keys of the session, without repetitions in a row
    chosen,         \* history: the authenticator forwarded by the choose step
    last            \* history: the handler that ran last

vars == <<open, primaryMethod, step, error, selected, body, inflight,
          closes, relaunch, exported, newest, enrolled, visited, chosen, last>>

----------------------------------------------------------------------------
(* Bounds *)

\* calls awaiting a response at one time
MaxInflight == 2
\* sessions opened in one run
MaxSessions == 2
\* calls of earlier sessions still pending when a session opens
MaxStale == 0

----------------------------------------------------------------------------
(* Values *)

\* JavaScript's undefined
None == "undefined"

AuthenticatorType == {"app", "sms", "email"}

defaultAuthenticators == <<"app", "sms", "email">>

\* the catalog, each entry represented by its type tag
Authenticators == <<"app", "sms", "email">>

\* messages of the errors the service rejects a call with
ErrMsgs == {"Invalid code", "Request failed"}

\* values of the code field of the form
Codes == {"", "48219", "482193", "4821937"}

\* answers of db.mfa.codes()
CodeSets == {<<"c1", "c2">>, <<"c3", "c4">>}

\* values typed into the phone number field
PhoneInputs == {"", "notanumber", "+1 (234) 567-890"}

\* phone(number) of the "phone" package: classification and normalised form
phone(number) ==
    IF number = "+1 (234) 567-890"
    THEN [isValid |-> TRUE, phoneNumber |-> "+1234567890"]
    ELSE [isValid |-> FALSE, phoneNumber |-> None]

\* truthiness of a string or undefined
Truthy(v) == v # None /\ v # ""

Range(s) == {s[i] : i \in 1..Len(s)}

\* Array.prototype.find over the catalog
Find(a) == IF a \in Range(Authenticators) THEN a ELSE None

\* array[index], undefined when out of range (index counted from 0)
At(s, i) == IF i + 1 \in 1..Len(s) THEN s[i + 1] ELSE None

\* Array.prototype.join
RECURSIVE join(_, _)
join(array, separator) ==
    IF array = <<>> THEN ""
    ELSE IF Len(array) = 1 THEN array[1]
    ELSE array[1] \o separator \o join(Tail(array), separator)

\* the UTF-8 code of a character of a recovery code or of the separator
CharCode(ch) ==
    CASE ch = "\n" -> 10
      [] ch = "," -> 44
      [] ch = "1" -> 49
      [] ch = "2" -> 50
      [] ch = "3" -> 51
      [] ch = "4" -> 52
      [] ch = "5" -> 53
      [] ch = "c" -> 99

\* Buffer.from(text): the UTF-8 bytes of the text
BufferFrom(text) == [k \in 1..Len(text) |-> CharCode(SubSeq(text, k, k))]

\* what an export action hands over: the text written to the clipboard, or the
\* bytes of the file saved under the name
Artifact(to, text, bytes) == [to |-> to, text |-> text, bytes |-> bytes]

NoArtifact == Artifact(None, None, <<>>)

\* the codes call the step body made last: not made, awaited, or answered
NoCall == [state |-> "none", codes |-> <<>>]
Awaited == [state |-> "awaited", codes |-> <<>>]
Answered(state, codes) == [state |-> state, codes |-> codes]

Remove(s, i) == SubSeq(s, 1, i - 1) \o SubSeq(s, i + 1, Len(s))

----------------------------------------------------------------------------
(* The step registries *)

Descriptor(reg, key, next, cancellable, auths, a, p) ==
    [reg |-> reg, key |-> key, next |-> next, cancellable |-> cancellable,
     authenticators |-> auths, authenticator |-> a, primary |-> p]

steps_choose ==
    Descriptor("steps", "choose", "setup", TRUE, defaultAuthenticators, None, None)


\* mutation: the setup step continues straight to finish
steps_setup_SkipsCodes(authenticator) ==
    Descriptor("steps", "setup", "finish", FALSE, <<>>, authenticator, None)

\* mutation: the setup step is marked cancellable
steps_setup_Cancellable(authenticator) ==
    Descriptor("steps", "setup", "recoveryCodes", TRUE, <<>>, authenticator, None)

steps_setup(authenticator) ==
    Descriptor("steps", "setup", "recoveryCodes", FALSE, <<>>, authenticator, None)


\* mutation: the recovery codes step is marked cancellable
steps_recoveryCodes_Cancellable(authenticatorType) ==
    Descriptor("steps", "recoveryCodes", "finish", TRUE, <<>>, authenticatorType, None)

\* mutation: the recovery codes step names itself as its successor
steps_recoveryCodes_Repeats(authenticatorType) ==
    Descriptor("steps", "recoveryCodes", "recoveryCodes", FALSE, <<>>, authenticatorType, None)

steps_recoveryCodes(authenticatorType) ==
    Descriptor("steps", "recoveryCodes", "finish", FALSE, <<>>, authenticatorType, None)

steps_finish(authenticatorType) ==
    Descriptor("steps", "finish", None, FALSE, <<>>, authenticatorType, None)


\* mutation: the catalog is offered unfiltered
fallbackSteps_choose_Unfiltered(p) ==
    Descriptor("fallbackSteps", "choose", "setup", TRUE, defaultAuthenticators, None, p)

fallbackSteps_choose(p) ==
    Descriptor("fallbackSteps", "choose", "setup", TRUE,
               SelectSeq(defaultAuthenticators, LAMBDA i : i # p), None, p)


\* mutation: the fallback setup step continues to recoveryCodes, like the primary one
fallbackSteps_setup_ToCodes(authenticator) ==
    Descriptor("fallbackSteps", "setup", "recoveryCodes", TRUE, <<>>, authenticator, None)

\* mutation: the fallback setup step names no successor
fallbackSteps_setup_NoNext(authenticator) ==
    Descriptor("fallbackSteps", "setup", None, TRUE, <<>>, authenticator, None)

fallbackSteps_setup(authenticator) ==
    Descriptor("fallbackSteps", "setup", "finish", TRUE, <<>>, authenticator, None)

fallbackSteps_finish(fallbackMethod, p) ==
    Descriptor("fallbackSteps", "finish", None, FALSE, <<>>, fallbackMethod, p)

StepKeys == {"choose", "setup", "recoveryCodes", "finish"}
FallbackStepKeys == {"choose", "setup", "finish"}

\* registry[key](a1, a2); surplus arguments are ignored by the factory
Create(reg, key, a1, a2) ==
    IF reg = "steps"
    THEN CASE key = "choose" -> steps_choose
           [] key = "setup" -> steps_setup(a1)
           [] key = "recoveryCodes" -> steps_recoveryCodes(a1)
           [] OTHER -> steps_finish(a1)
    ELSE CASE key = "choose" -> fallbackSteps_choose(a1)
           [] key = "setup" -> fallbackSteps_setup(a1)
           [] OTHER -> fallbackSteps_finish(a1, a2)

\* the factory call raises a TypeError: the key is absent from the registry,
\* or a setup factory reads .title of undefined
Throws(reg, key, a1) ==
    \/ reg = "steps" /\ key \notin StepKeys
    \/ reg = "fallbackSteps" /\ key \notin FallbackStepKeys
    \/ key = "setup" /\ a1 = None

\* mutation: the successor is always taken from the primary registry
nextStepCreator_AlwaysPrimary(s, pm) == "steps"

\* onNext: the registry the successor is taken from
nextStepCreator(s, pm) ==
    IF s.next # "recoveryCodes" /\ pm # None THEN "fallbackSteps" ELSE "steps"

\* mutation: the primary method is not appended to the factory's arguments
nextStep_WithoutPrimary(s, pm, arg) ==
    Create(nextStepCreator(s, pm), s.next, arg, None)

\* onNext: the successor descriptor
nextStep(s, pm, arg) ==
    IF pm # None
    THEN Create(nextStepCreator(s, pm), s.next, arg, pm)
    ELSE Create(nextStepCreator(s, pm), s.next, arg, None)

----------------------------------------------------------------------------
(* Step bodies *)

\* the useState defaults of the step bodies
InitBody ==
    [isSending |-> FALSE, enabled |-> TRUE, error |-> None, phoneNumber |-> None,
     input |-> "", codes |-> <<>>, details |-> FALSE, email |-> FALSE]

\* ChooseAuthenticator: the catalog entries of the offered types
filteredAuthenticators(s) ==
    [k \in 1..Len(s.authenticators) |-> Find(s.authenticators[k])]

\* a call awaiting its response, with the closure it was made from
Call(kind, a, arg, s, pm, sess) ==
    [kind |-> kind, authenticator |-> a, arg |-> arg, step |-> s,
     primaryMethod |-> pm, session |-> sess, body |-> TRUE]

current == Len(closes)

\* the MultifactorDialog of session sess is still mounted
Mounted(sess) == open /\ sess = current

\* the step body that made call c is still mounted
BodyMounted(c) == Mounted(c.session) /\ c.body

Unmount(calls) == [k \in 1..Len(calls) |-> [calls[k] EXCEPT !.body = FALSE]]

\* the calls made by the effects that run when the body of step s mounts
MountCalls(s, pm, sess) ==
    CASE s.key = "setup" /\ s.authenticator = "app" ->
             <<Call("setup", "app", None, s, pm, sess)>>
      [] s.key = "setup" /\ s.authenticator = "email" ->
             <<Call("getUser", "email", None, s, pm, sess)>>
      [] s.key = "recoveryCodes" ->
             <<Call("codes", s.authenticator, None, s, pm, sess)>>
      [] OTHER -> <<>>

\* mutation: the flag is not passed on
isFallback_Unset(s) == FALSE

\* isFallback of AuthenticatorSelector
isFallback(s) == s.reg = "fallbackSteps"

----------------------------------------------------------------------------
(* MultifactorDialog *)

\* mutation: the primary method is ignored
InitialStep_AlwaysPrimary(pm) == steps_choose

\* useState initialiser of MultifactorDialog
InitialStep(pm) == IF pm # None THEN fallbackSteps_choose(pm) ELSE steps_choose

\* setStep(ns) and the mount of the new step body; rest: the other pending calls
SetStep(ns, rest) ==
    /\ Len(rest) + Len(MountCalls(ns, primaryMethod, current)) <= MaxInflight
    /\ step' = ns
    /\ body' = InitBody
    /\ exported' = NoArtifact
    /\ newest' = IF ns.key = "recoveryCodes" THEN Awaited ELSE NoCall
    /\ inflight' = Unmount(rest) \o MountCalls(ns, primaryMethod, current)
    /\ error' = IF ns.key = "recoveryCodes" THEN "" ELSE error
    /\ visited' = IF visited[Len(visited)] = ns.key THEN visited
                  ELSE Append(visited, ns.key)
    /\ UNCHANGED <<open, closes>>

\* props.onClose of session sess
onClose(sess, rest) ==
    /\ closes' = [closes EXCEPT ![sess] = @ + 1]
    /\ open' = IF sess = current THEN FALSE ELSE open
    /\ inflight' = IF Mounted(sess) THEN Unmount(rest) ELSE rest
    /\ exported' = NoArtifact
    /\ newest' = IF Mounted(sess) THEN NoCall ELSE newest
    /\ UNCHANGED <<step, error, body, visited>>


\* mutation: the message is dropped
onError_Swallowed(msg, sess) ==
    UNCHANGED <<error, step>>

\* mutation: reporting an error restarts the wizard at its first step
onError_Restarts(msg, sess) ==
    /\ error' = IF Mounted(sess) THEN msg ELSE error
    /\ step' = IF Mounted(sess) THEN InitialStep(primaryMethod) ELSE step

\* onError = setError of session sess
onError(msg, sess) ==
    /\ error' = IF Mounted(sess) THEN msg ELSE error
    /\ UNCHANGED step

\* mutation: the successor is looked up without the test for a missing key
onNext_NoCloseOnEnd(s, pm, arg, sess, rest) ==
    IF Throws(nextStepCreator(s, pm), s.next, arg) \/ ~Mounted(sess)
    THEN /\ inflight' = rest
         /\ exported' = NoArtifact
         /\ UNCHANGED <<open, step, error, body, closes, visited, newest>>
    ELSE SetStep(nextStep(s, pm, arg), rest)

\* the onNext closure of a render with step s in session sess
onNext(s, pm, arg, sess, rest) ==
    IF s.next = None
    THEN onClose(sess, rest)
    ELSE IF Throws(nextStepCreator(s, pm), s.next, arg) \/ ~Mounted(sess)
         THEN /\ inflight' = rest
              /\ exported' = NoArtifact
              /\ UNCHANGED <<open, step, error, body, closes, visited, newest>>
         ELSE SetStep(nextStep(s, pm, arg), rest)

Init ==
    /\ primaryMethod \in AuthenticatorType \cup {None}
    /\ open = TRUE
    /\ step = InitialStep(primaryMethod)
    /\ error = None
    /\ selected = 0
    /\ body = InitBody
    /\ inflight = <<>>
    /\ closes = <<0>>
    /\ relaunch = None
    /\ exported = NoArtifact
    /\ newest = NoCall
    /\ enrolled = {}
    /\ visited = <<"choose">>
    /\ chosen = None
    /\ last = "open"

\* useSessionState(key, def): the value the hook starts with when its component
\* mounts, stored being the value last set under the key (def if never set)
useSessionState(stored, def) == stored

\* showMultifactorDialog(pm)
Open(pm) ==
    /\ ~open
    /\ current < MaxSessions
    /\ Len(inflight) <= MaxStale
    /\ open' = TRUE
    /\ primaryMethod' = pm
    /\ step' = InitialStep(pm)
    /\ error' = None
    /\ body' = InitBody
    /\ closes' = Append(closes, 0)
    /\ exported' = NoArtifact
    /\ newest' = NoCall
    /\ enrolled' = {}
    /\ visited' = <<"choose">>
    /\ chosen' = None
    /\ last' = "open"
    /\ selected' = useSessionState(selected, 0)
    /\ UNCHANGED inflight

ShowDialog ==
    /\ relaunch = None
    /\ \E pm \in AuthenticatorType \cup {None} : Open(pm)
    /\ UNCHANGED relaunch

\* negativeButton: rendered only for a cancellable step
Cancel ==
    /\ open
    /\ IF step.cancellable
       THEN onClose(current, inflight)
       ELSE /\ exported' = NoArtifact
            /\ UNCHANGED <<open, step, error, body, inflight, closes, visited, newest>>
    /\ last' = "cancel"
    /\ UNCHANGED <<enrolled, primaryMethod, selected, relaunch, chosen>>

----------------------------------------------------------------------------
(* ChooseAuthenticator *)

Select(index) ==
    /\ open /\ step.key = "choose"
    /\ index + 1 \in 1..Len(filteredAuthenticators(step))
    /\ selected' = index
    /\ last' = "select"
    /\ exported' = NoArtifact
    /\ UNCHANGED <<newest, enrolled, open, primaryMethod, step, error, body, inflight,
                   closes, relaunch, visited, chosen>>

ChooseSubmit ==
    /\ open /\ step.key = "choose"
    /\ LET authenticator == At(filteredAuthenticators(step), selected)
       IN /\ onNext(step, primaryMethod, authenticator, current, inflight)
          /\ chosen' = authenticator
    /\ last' = "choose"
    /\ UNCHANGED <<enrolled, primaryMethod, selected, relaunch>>

----------------------------------------------------------------------------
(* AuthenticatorSelector and VerifyAuthenticatorForm *)

\* onSubmitCode: the call to db.mfa
onSubmitCode(code) ==
    /\ Len(inflight) < MaxInflight
    /\ inflight' = Append(inflight,
           Call(IF isFallback(step) THEN "enableFallback" ELSE "enable",
                step.authenticator, code, step, primaryMethod, current))

\* mutation: only a missing code is refused
SubmitCode_OnlyEmpty(code) ==
    /\ open /\ step.key = "setup"
    /\ IF code = ""
       THEN UNCHANGED inflight
       ELSE onSubmitCode(code)
    /\ last' = "submitCode"
    /\ exported' = NoArtifact
    /\ UNCHANGED <<newest, enrolled, open, primaryMethod, step, error, selected, body, closes,
                   relaunch, visited, chosen>>

\* VerifyAuthenticatorForm.onSubmit
SubmitCode(code) ==
    /\ open /\ step.key = "setup"
    /\ IF code = "" \/ Len(code) # 6
       THEN UNCHANGED inflight
       ELSE onSubmitCode(code)
    /\ last' = "submitCode"
    /\ exported' = NoArtifact
    /\ UNCHANGED <<newest, enrolled, open, primaryMethod, step, error, selected, body, closes,
                   relaunch, visited, chosen>>

IsEnable(c) == c.kind \in {"enable", "enableFallback"}

\* onSubmitCode after the await: the service accepted the code
EnableResolve(i) ==
    /\ i \in 1..Len(inflight) /\ IsEnable(inflight[i])
    /\ LET c == inflight[i]
       IN /\ onNext(c.step, c.primaryMethod, c.authenticator, c.session,
                    Remove(inflight, i))
          /\ enrolled' = IF c.session = current
                         THEN enrolled \cup {<<c.kind, c.authenticator>>}
                         ELSE enrolled
    /\ last' = "enableResolved"
    /\ UNCHANGED <<primaryMethod, selected, relaunch, chosen>>

\* onSubmitCode, catch: the service rejected the code
EnableReject(i, msg) ==
    /\ i \in 1..Len(inflight) /\ IsEnable(inflight[i])
    /\ onError(msg, inflight[i].session)
    /\ inflight' = Remove(inflight, i)
    /\ last' = "enableRejected"
    /\ exported' = NoArtifact
    /\ UNCHANGED <<newest, enrolled, open, primaryMethod, selected, body, closes, relaunch,
                   visited, chosen>>

----------------------------------------------------------------------------
(* SetupAuthenticatorApp, SetupEmail, SetupSMS *)

OnSetup(a) == open /\ step.key = "setup" /\ step.authenticator = a

Frame ==
    /\ exported' = NoArtifact
    /\ UNCHANGED <<newest, enrolled, open, primaryMethod, step, error, selected, closes,
                   relaunch, visited, chosen>>

\* SetupEmail: the send button (disabled while isSending or in the cool-down)
SendEmail ==
    /\ OnSetup("email")
    /\ ~(body.isSending \/ ~body.enabled)
    /\ Len(inflight) < MaxInflight
    /\ body' = [body EXCEPT !.isSending = TRUE]
    /\ inflight' = Append(inflight,
           Call("setup", "email", None, step, primaryMethod, current))
    /\ last' = "sendEmail"
    /\ Frame

\* SetupSMS: onChange of the phone number field
PhoneChange(number) ==
    /\ OnSetup("sms")
    /\ body' =
         IF ~Truthy(number)
         THEN [body EXCEPT !.input = number, !.error = ""]
         ELSE IF phone(number).isValid
              THEN [body EXCEPT !.input = number,
                                !.phoneNumber = phone(number).phoneNumber,
                                !.error = ""]
              ELSE [body EXCEPT !.input = number, !.phoneNumber = "",
                                !.error = "Please enter a valid phone number with country code."]
    /\ last' = "phoneChange"
    /\ UNCHANGED inflight
    /\ Frame

\* SetupSMS: the send action (disabled on an error, while isSending or in the cool-down)
SendSMS ==
    /\ OnSetup("sms")
    /\ ~(Truthy(body.error) \/ body.isSending \/ ~body.enabled)
    /\ IF ~Truthy(body.phoneNumber)
       THEN /\ body' = [body EXCEPT !.error = "Please provide a phone number."]
            /\ UNCHANGED inflight
       ELSE /\ Len(inflight) < MaxInflight
            /\ body' = [body EXCEPT !.isSending = TRUE]
            /\ inflight' = Append(inflight,
                   Call("setup", "sms", body.phoneNumber, step, primaryMethod, current))
    /\ last' = "sendSMS"
    /\ Frame

\* db.mfa.setup resolved
SetupResolve(i) ==
    /\ i \in 1..Len(inflight) /\ inflight[i].kind = "setup"
    /\ LET c == inflight[i]
       IN body' = IF ~BodyMounted(c) THEN body
                  ELSE IF c.authenticator = "app"
                       THEN [body EXCEPT !.details = TRUE]
                       ELSE [body EXCEPT !.enabled = FALSE, !.isSending = FALSE]
    /\ inflight' = Remove(inflight, i)
    /\ last' = "setupResolved"
    /\ Frame

\* db.mfa.setup rejected: caught by the send actions; the effect of the app body
\* has no catch, its rejection is left unhandled
SetupReject(i, msg) ==
    /\ i \in 1..Len(inflight) /\ inflight[i].kind = "setup"
    /\ LET c == inflight[i]
       IN body' = IF ~BodyMounted(c) \/ c.authenticator = "app" THEN body
                  ELSE [body EXCEPT !.error = msg, !.isSending = FALSE]
    /\ inflight' = Remove(inflight, i)
    /\ last' = IF inflight[i].authenticator = "app"
               THEN "unhandledRejection" ELSE "setupRejected"
    /\ Frame

\* SetupEmail effect: db.user.getUser settled; the effect has no catch
GetUserSettle(i, ok) ==
    /\ i \in 1..Len(inflight) /\ inflight[i].kind = "getUser"
    /\ body' = IF BodyMounted(inflight[i]) /\ ok
               THEN [body EXCEPT !.email = TRUE] ELSE body
    /\ inflight' = Remove(inflight, i)
    /\ last' = IF ok THEN "getUserResolved" ELSE "unhandledRejection"
    /\ Frame

\* useTimer: the cool-down of the send action has run out
TimerElapsed ==
    /\ open /\ step.key = "setup" /\ ~body.enabled
    /\ body' = [body EXCEPT !.enabled = TRUE]
    /\ last' = "timer"
    /\ UNCHANGED inflight
    /\ Frame

----------------------------------------------------------------------------
(* BackupRecoveryCodes *)

\* call i is the codes call the mounted step body made last
IsNewest(i) ==
    /\ BodyMounted(inflight[i])
    /\ newest.state = "awaited"
    /\ \A j \in DOMAIN inflight :
           j > i => ~(inflight[j].kind = "codes" /\ BodyMounted(inflight[j]))

\* the Regenerate action: generate() up to its await
Regenerate ==
    /\ open /\ step.key = "recoveryCodes"
    /\ Len(inflight) < MaxInflight
    /\ onError("", current)
    /\ inflight' = Append(inflight,
           Call("codes", step.authenticator, None, step, primaryMethod, current))
    /\ newest' = Awaited
    /\ last' = "regenerate"
    /\ exported' = NoArtifact
    /\ UNCHANGED <<enrolled, open, primaryMethod, selected, body, closes, relaunch,
                   visited, chosen>>

\* mutation: the answer is added to the codes on display
CodesResolve_Appends(i, codes) ==
    /\ i \in 1..Len(inflight) /\ inflight[i].kind = "codes"
    /\ body' = IF BodyMounted(inflight[i])
               THEN [body EXCEPT !.codes = @ \o codes] ELSE body
    /\ inflight' = Remove(inflight, i)
    /\ newest' = IF IsNewest(i) THEN Answered("resolved", codes) ELSE newest
    /\ last' = "codesResolved"
    /\ exported' = NoArtifact
    /\ UNCHANGED <<enrolled, open, primaryMethod, step, error, selected,
                   closes, relaunch, visited, chosen>>

\* generate() after the await: db.mfa.codes resolved
CodesResolve(i, codes) ==
    /\ i \in 1..Len(inflight) /\ inflight[i].kind = "codes"
    /\ body' = IF BodyMounted(inflight[i])
               THEN [body EXCEPT !.codes = codes] ELSE body
    /\ inflight' = Remove(inflight, i)
    /\ newest' = IF IsNewest(i) THEN Answered("resolved", codes) ELSE newest
    /\ last' = "codesResolved"
    /\ exported' = NoArtifact
    /\ UNCHANGED <<enrolled, open, primaryMethod, step, error, selected,
                   closes, relaunch, visited, chosen>>

\* generate(), catch
CodesReject(i, msg) ==
    /\ i \in 1..Len(inflight) /\ inflight[i].kind = "codes"
    /\ onError(msg, inflight[i].session)
    /\ inflight' = Remove(inflight, i)
    /\ newest' = IF IsNewest(i) THEN Answered("rejected", <<>>) ELSE newest
    /\ last' = "codesRejected"
    /\ exported' = NoArtifact
    /\ UNCHANGED <<enrolled, open, primaryMethod, selected, body, closes, relaunch,
                   visited, chosen>>

\* mutation: the codes are joined by a comma
Copy_CommaSeparated ==
    /\ open /\ step.key = "recoveryCodes"
    /\ exported' = Artifact("clipboard", join(body.codes, ","), <<>>)
    /\ last' = "copy"
    /\ UNCHANGED <<newest, enrolled, open, primaryMethod, step, error, selected, body,
                   inflight, closes, relaunch, visited, chosen>>

\* the Copy action: clipboard.writeText
Copy ==
    /\ open /\ step.key = "recoveryCodes"
    /\ exported' = Artifact("clipboard", join(body.codes, "\n"), <<>>)
    /\ last' = "copy"
    /\ UNCHANGED <<newest, enrolled, open, primaryMethod, step, error, selected, body,
                   inflight, closes, relaunch, visited, chosen>>

\* the Download action: FileSaver.saveAs of a Blob
Download ==
    /\ open /\ step.key = "recoveryCodes"
    /\ exported' = Artifact("notesnook-recovery-codes.txt", None,
                             BufferFrom(join(body.codes, "\n")))
    /\ last' = "download"
    /\ UNCHANGED <<newest, enrolled, open, primaryMethod, step, error, selected, body,
                   inflight, closes, relaunch, visited, chosen>>

\* onSubmit of the recovery codes form
Continue ==
    /\ open /\ step.key = "recoveryCodes"
    /\ onNext(step, primaryMethod, step.authenticator, current, inflight)
    /\ last' = "continue"
    /\ UNCHANGED <<enrolled, primaryMethod, selected, relaunch, chosen>>

----------------------------------------------------------------------------
(* TwoFactorEnabled, Fallback2FAEnabled *)

\* the Done button
Done ==
    /\ open /\ step.key = "finish"
    /\ onClose(current, inflight)
    /\ last' = "done"
    /\ UNCHANGED <<enrolled, primaryMethod, selected, relaunch, chosen>>

\* the onNext handed to the finish body is called: the step has no successor
FinishOnNext ==
    /\ open /\ step.key = "finish"
    /\ onNext(step, primaryMethod, step.authenticator, current, inflight)
    /\ last' = "next"
    /\ UNCHANGED <<enrolled, primaryMethod, selected, relaunch, chosen>>

\* mutation: the new session is scheduled without closing the current one
RelaunchClick_KeepsOpen ==
    /\ open /\ step.key = "finish" /\ step.reg = "steps"
    /\ current < MaxSessions
    /\ relaunch' = step.authenticator
    /\ last' = "relaunch"
    /\ exported' = NoArtifact
    /\ UNCHANGED <<open, step, error, body, inflight, closes, visited, newest,
                   enrolled, primaryMethod, selected, chosen>>

\* "Setup a fallback 2FA method": onClose, then setTimeout
RelaunchClick ==
    /\ open /\ step.key = "finish" /\ step.reg = "steps"
    /\ current < MaxSessions
    /\ onClose(current, inflight)
    /\ relaunch' = step.authenticator
    /\ last' = "relaunch"
    /\ UNCHANGED <<enrolled, primaryMethod, selected, chosen>>

\* the timeout fires: showMultifactorDialog(props.authenticatorType)
RelaunchFire ==
    /\ relaunch # None
    /\ Open(relaunch)
    /\ relaunch' = None

----------------------------------------------------------------------------

Next ==
    \/ ShowDialog
    \/ Cancel
    \/ \E index \in 0..2 : Select(index)
    \/ ChooseSubmit
    \/ \E code \in Codes : SubmitCode(code)
    \/ \E i \in DOMAIN inflight : EnableResolve(i)
    \/ \E i \in DOMAIN inflight, msg \in ErrMsgs : EnableReject(i, msg)
    \/ SendEmail
    \/ \E number \in PhoneInputs : PhoneChange(number)
    \/ SendSMS
    \/ \E i \in DOMAIN inflight : SetupResolve(i)
    \/ \E i \in DOMAIN inflight, msg \in ErrMsgs : SetupReject(i, msg)
    \/ \E i \in DOMAIN inflight, ok \in BOOLEAN : GetUserSettle(i, ok)
    \/ TimerElapsed
    \/ Regenerate
    \/ \E i \in DOMAIN inflight, codes \in CodeSets : CodesResolve(i, codes)
    \/ \E i \in DOMAIN inflight, msg \in ErrMsgs : CodesReject(i, msg)
    \/ Copy
    \/ Download
    \/ Continue
    \/ Done
    \/ FinishOnNext
    \/ RelaunchClick
    \/ RelaunchFire

Spec == Init /\ [][Next]_vars

\* the adapter answers a pending call
Respond ==
    \E i \in DOMAIN inflight :
        \/ EnableResolve(i)
        \/ SetupResolve(i)
        \/ \E ok \in BOOLEAN : GetUserSettle(i, ok)
        \/ \E codes \in CodeSets : CodesResolve(i, codes)
        \/ \E msg \in ErrMsgs :
               EnableReject(i, msg) \/ SetupReject(i, msg) \/ CodesReject(i, msg)

\* the user who goes on: every action of the wizard but Cancel; sessions are
\* the initial one, of either mode, and the one the relaunch action opens
LiveNext ==
    \/ \E index \in 0..2 : Select(index)
    \/ ChooseSubmit
    \/ \E code \in Codes : SubmitCode(code)
    \/ Respond
    \/ SendEmail
    \/ \E number \in PhoneInputs : PhoneChange(number)
    \/ SendSMS
    \/ TimerElapsed
    \/ Regenerate
    \/ Copy
    \/ Download
    \/ Continue
    \/ Done
    \/ FinishOnNext
    \/ RelaunchClick
    \/ RelaunchFire

\* the user selects a method, submits a code of 6 characters, continues and
\* presses Done; the adapter answers, and in the end accepts a code
Fairness ==
    /\ WF_vars(\E index \in 0..2 : Select(index))
    /\ WF_vars(ChooseSubmit)
    /\ SF_vars(SubmitCode("482193"))
    /\ WF_vars(Respond)
    /\ SF_vars(\E i \in DOMAIN inflight : EnableResolve(i))
    /\ WF_vars(Continue)
    /\ WF_vars(Done)

LiveSpec == Init /\ [][LiveNext]_vars /\ Fairness

----------------------------------------------------------------------------
(* Properties *)

PrimaryMode == primaryMethod = None
FallbackMode == primaryMethod # None

PrimaryPath == <<"choose", "setup", "recoveryCodes", "finish">>
FallbackPath == <<"choose", "setup", "finish">>

IsPrefix(s, t) == Len(s) <= Len(t) /\ s = SubSeq(t, 1, Len(s))

\* C1: a primary session walks choose, setup, recoveryCodes, finish in this
\* order, every step after choose carries the method the choose step
\* forwarded, and finish is reached with no other method.
C1_PrimaryPathCarriesChoice ==
    PrimaryMode =>
        /\ IsPrefix(visited, PrimaryPath) \/ IsPrefix(PrimaryPath, visited)
        /\ step.key = visited[Len(visited)]
        /\ step.key # "choose" =>
               /\ chosen \in AuthenticatorType
               /\ step.authenticator = chosen
        /\ step.key = "finish" => IsPrefix(PrimaryPath, visited)

C1_Witness ==
    /\ PrimaryMode /\ open /\ step.key = "finish"
    /\ visited = PrimaryPath
    /\ chosen = "email" /\ step.authenticator = "email"
    /\ last = "continue"

\* C2: a fallback session is never on recoveryCodes, and the only step that
\* follows its setup step is finish.
C2_FallbackSkipsRecoveryCodes ==
    FallbackMode =>
        /\ step.key # "recoveryCodes"
        /\ IsPrefix(visited, FallbackPath)
        /\ step.key = visited[Len(visited)]

C2_Witness ==
    /\ FallbackMode /\ open /\ step.key = "finish"
    /\ visited = FallbackPath
    /\ last = "enableResolved"

\* the catalog without the primary method, written out
CatalogWithout(p) ==
    CASE p = "app" -> <<"sms", "email">>
      [] p = "sms" -> <<"app", "email">>
      [] p = "email" -> <<"app", "sms">>
      [] OTHER -> <<"app", "sms", "email">>

\* C3: the fallback choose step offers the catalog without the primary method,
\* in catalog order; the primary choose step offers all three methods.
C3_FallbackChooseExcludesPrimary ==
    step.key = "choose" =>
        /\ filteredAuthenticators(step) = CatalogWithout(primaryMethod)
        /\ primaryMethod \notin Range(filteredAuthenticators(step))
        /\ Len(filteredAuthenticators(step)) = IF FallbackMode THEN 2 ELSE 3

C3_Witness ==
    /\ open /\ primaryMethod = "app" /\ step.key = "choose"
    /\ filteredAuthenticators(step) = <<"sms", "email">>
    /\ last = "select" /\ selected = 1

\* a response to a verification call
Rejected(i) == \E msg \in ErrMsgs : EnableReject(i, msg)

ReportsError ==
    \/ \E i \in DOMAIN inflight : Rejected(i)
    \/ \E i \in DOMAIN inflight, msg \in ErrMsgs : CodesReject(i, msg)

\* C5: reporting an error changes the error message only: the step, the mode
\* and the open dialog stay as they are.
C5_ReportErrorKeepsStep ==
    [][ReportsError =>
          /\ step' = step
          /\ primaryMethod' = primaryMethod
          /\ open' = open
          /\ visited' = visited]_vars

C5_Witness ==
    /\ open /\ step.key = "recoveryCodes" /\ last = "codesRejected"
    /\ error \in ErrMsgs

\* a transition of the open wizard to another step descriptor
Advances == open /\ open' /\ closes' = closes /\ step' # step

CancellableSteps ==
    {<<"steps", "choose">>, <<"fallbackSteps", "choose">>, <<"fallbackSteps", "setup">>}

\* C7: Cancel closes the dialog on primary choose, fallback choose and
\* fallback setup, and changes nothing on any other step.
C7_CancelOnlyWhereCancellable ==
    [][Cancel =>
          IF <<step.reg, step.key>> \in CancellableSteps
          THEN ~open' /\ closes'[current] = 1
          ELSE UNCHANGED <<step, error, open, closes, inflight, body>>]_vars

C7_Witness ==
    /\ open /\ last = "cancel"
    /\ step.reg = "steps" /\ step.key \in {"setup", "recoveryCodes", "finish"}

Pending(kinds) ==
    {i \in DOMAIN inflight : inflight[i].kind \in kinds /\ BodyMounted(inflight[i])}

\* C9: the mounted step body has at most one verification call and at most
\* one send-code call awaiting its response.
C9_OneOutstandingCall ==
    /\ Cardinality(Pending({"enable", "enableFallback"})) <= 1
    /\ Cardinality({i \in Pending({"setup"}) :
                       inflight[i].authenticator # "app"}) <= 1

\* C10: closing the dialog leaves the pending calls pending, and the response
\* to a verification call of a closed session changes neither step nor
\* error, does not open the dialog and does not close it a second time.
C10_ClosedSessionDiscardsResult ==
    [][/\ Cancel /\ step.cancellable => Len(inflight') = Len(inflight)
       /\ \A i \in DOMAIN inflight :
            (EnableResolve(i) \/ Rejected(i)) /\ ~Mounted(inflight[i].session) =>
                UNCHANGED <<step, error, open, closes, visited>>]_vars

C10_Witness ==
    /\ ~open /\ closes[current] = 1
    /\ step.reg = "fallbackSteps" /\ step.key = "setup"
    /\ last = "enableResolved"

\* the finish descriptor the session ends on
FinishOf(pm, m) == IF pm # None THEN fallbackSteps_finish(m, pm) ELSE steps_finish(m)

\* C11: finish has no successor key and is not cancellable, and an advance on a
\* step without successor closes the dialog and leaves that step's descriptor
\* in place.
C11_AdvanceAtEndCloses ==
    /\ step.key = "finish" => step.next = None /\ ~step.cancellable
    /\ last = "next" =>
           /\ ~open /\ closes[current] = 1
           /\ step = FinishOf(primaryMethod, chosen)
           /\ visited[Len(visited)] = "finish"

C11_Witness ==
    /\ last = "next" /\ ~open
    /\ step.reg = "fallbackSteps" /\ step.key = "finish"

\* C12: a session starts on the fallback choose step, without the primary
\* method among the candidates, when it is opened with a primary method, and
\* on the primary choose step with all methods otherwise; no error is shown.
C12_InitialStepByMode ==
    last = "open" =>
        /\ open /\ error = None
        /\ step.key = "choose" /\ visited = <<"choose">>
        /\ step.reg = IF primaryMethod \in AuthenticatorType
                      THEN "fallbackSteps" ELSE "steps"
        /\ step.authenticators = CatalogWithout(primaryMethod)

C12_Witness ==
    /\ last = "open" /\ current = 2
    /\ primaryMethod = "sms" /\ step.authenticators = <<"app", "email">>

\* C13: the finish step of a fallback session carries the method verified at
\* setup and the primary method the session was opened with, and the two differ.
C13_FallbackFinishCarriesBoth ==
    FallbackMode /\ step.key = "finish" =>
        /\ step.primary = primaryMethod
        /\ step.authenticator = chosen
        /\ <<"enableFallback", step.authenticator>> \in enrolled
        /\ step.authenticator \in AuthenticatorType \ {primaryMethod}

C13_Witness ==
    /\ open /\ step.key = "finish"
    /\ primaryMethod = "app" /\ step.primary = "app" /\ step.authenticator = "email"

\* the enrolment operation of the session's mode
ModeOperation == IF FallbackMode THEN "enableFallback" ELSE "enable"

\* C14: a session closed by Cancel has enrolled nothing, also once its pending
\* calls have been answered, and a session closed on finish has enrolled the
\* method its finish step carries and no other.
C14_CloseMatchesEnrolment ==
    ~open =>
        /\ step.cancellable => enrolled = {}
        /\ step.key = "finish" => enrolled = {<<ModeOperation, step.authenticator>>}

\* C15: the verification calls of a session are those of its mode, for the
\* method its choose step forwarded, and the wizard is past setup only after
\* such a call was accepted.
C15_ConfirmRoutedByMode ==
    /\ \A i \in DOMAIN inflight :
           IsEnable(inflight[i]) /\ inflight[i].session = current =>
               /\ inflight[i].kind = ModeOperation
               /\ inflight[i].authenticator = chosen
               /\ chosen \in AuthenticatorType
    /\ enrolled \subseteq {<<ModeOperation, chosen>>}
    /\ step.key \in {"recoveryCodes", "finish"} =>
           <<ModeOperation, chosen>> \in enrolled

C15_Witness ==
    /\ open /\ primaryMethod = "app" /\ step.key = "finish"
    /\ enrolled = {<<"enableFallback", "sms">>}
    /\ last = "enableResolved"

\* C16: the failure of any call made by a mounted step body is reported as the
\* wizard's error message, and no rejection is left unhandled.
C16_FailuresReported ==
    [][\A i \in DOMAIN inflight : BodyMounted(inflight[i]) =>
          /\ \A msg \in ErrMsgs :
                 (\/ SetupReject(i, msg)
                  \/ EnableReject(i, msg)
                  \/ CodesReject(i, msg)) => error' = msg
          /\ GetUserSettle(i, FALSE) => error' \in ErrMsgs
          /\ last' # "unhandledRejection"]_vars

\* C17: a submission whose code is not 6 characters long starts no call and
\* changes neither step nor error; every verification call carries a
\* code of 6 characters.
C17_ShortCodeNeverSent ==
    /\ [](\A i \in DOMAIN inflight :
             IsEnable(inflight[i]) => Len(inflight[i].arg) = 6)
    /\ [][\A code \in Codes :
             SubmitCode(code) /\ Len(code) # 6 =>
                 UNCHANGED <<inflight, step, error, body, enrolled>>]_vars

C17_Witness ==
    /\ open /\ step.key = "setup" /\ step.authenticator = "sms"
    /\ last = "submitCode" /\ inflight = <<>>

LocalMessages ==
    {"Please provide a phone number.",
     "Please enter a valid phone number with country code."}

\* C18: the send action of the SMS step calls setup("sms", n) only when the
\* current value of the phone field is valid, with n its normalised form;
\* otherwise it makes no call and shows a step-local error; the wizard's
\* error is never one of the validation messages.
C18_SendUsesCurrentInput ==
    /\ error \notin LocalMessages
    /\ last = "sendSMS" =>
           IF phone(body.input).isValid
           THEN /\ body.isSending
                /\ inflight[Len(inflight)].kind = "setup"
                /\ inflight[Len(inflight)].arg = phone(body.input).phoneNumber
           ELSE /\ ~body.isSending
                /\ Truthy(body.error)

\* the send action of the setup body of authenticator a is enabled in body state b
SendEnabled(b, a) ==
    CASE a = "sms" -> ~(Truthy(b.error) \/ b.isSending \/ ~b.enabled)
      [] a = "email" -> ~(b.isSending \/ ~b.enabled)
      [] OTHER -> FALSE

\* C19: after a rejected code or a failed send-code call the wizard is still
\* on the setup step and the action that failed is enabled again.
C19_RetryAfterFailure ==
    [][\A i \in DOMAIN inflight : \A msg \in ErrMsgs :
          BodyMounted(inflight[i]) =>
              /\ SetupReject(i, msg) /\ inflight[i].authenticator # "app" =>
                     /\ step' = step /\ open'
                     /\ SendEnabled(body', step.authenticator)
              /\ EnableReject(i, msg) => step' = step /\ open']_vars

\* C20: an answer S to generate() makes S the codes on display, whatever was
\* displayed before; a failure leaves the display as it was and is reported.
C20_RegenerateReplacesCodes ==
    [][\A i \in DOMAIN inflight : BodyMounted(inflight[i]) =>
          /\ \A S \in CodeSets :
                 CodesResolve(i, S) => body'.codes = S /\ error' = error
          /\ \A msg \in ErrMsgs :
                 CodesReject(i, msg) =>
                     body'.codes = body.codes /\ error' = msg]_vars

C20_Witness ==
    /\ open /\ step.key = "recoveryCodes" /\ last = "codesResolved"
    /\ body.codes = <<"c3", "c4">>
    /\ \E i \in DOMAIN inflight :
           inflight[i].kind = "codes" /\ BodyMounted(inflight[i])

\* String.prototype.split for a separator of one character
RECURSIVE splitFrom(_, _, _, _)
splitFrom(text, separator, k, start) ==
    IF k > Len(text) THEN <<SubSeq(text, start, Len(text))>>
    ELSE IF SubSeq(text, k, k) = separator
         THEN <<SubSeq(text, start, k - 1)>> \o splitFrom(text, separator, k + 1, k + 1)
         ELSE splitFrom(text, separator, k + 1, start)

split(text, separator) == splitFrom(text, separator, 1, 1)

\* the character of a UTF-8 code below 128
CharOf(byte) ==
    CHOOSE ch \in {"\n", ",", "1", "2", "3", "4", "5", "c"} : CharCode(ch) = byte

\* the text a reader of the artifact gets: the clipboard text, or the file decoded
RECURSIVE decode(_)
decode(bytes) ==
    IF bytes = <<>> THEN "" ELSE CharOf(Head(bytes)) \o decode(Tail(bytes))

TextOf(a) == IF a.to = "clipboard" THEN a.text ELSE decode(a.bytes)

Exported == last \in {"copy", "download"}

\* an export leaves the codes on display and the wizard as they are
ExportKeepsState ==
    Copy \/ Download =>
        UNCHANGED <<body, step, error, open, primaryMethod, selected, inflight,
                    closes, enrolled>>

\* C23 as stated: the text of Copy and the file of Download hold the codes on
\* display, in order, joined by single newlines; split on newline the text is
\* the sequence on display; an export changes neither the display nor the wizard.
C23_ExportRoundTrip ==
    /\ [](Exported => split(TextOf(exported), "\n") = body.codes)
    /\ [][ExportKeepsState]_vars

\* C23, amended: as above when at least one code is on display; with no code on
\* display the text is empty (and splits into one empty line, not into none).
C23_ExportRoundTripOfCodes ==
    /\ [](Exported =>
            IF body.codes # <<>>
            THEN split(TextOf(exported), "\n") = body.codes
            ELSE TextOf(exported) = "")
    /\ [][ExportKeepsState]_vars

C23_Witness ==
    /\ open /\ step.key = "recoveryCodes" /\ last = "download"
    /\ body.codes = <<"c3", "c4">>
    /\ exported.bytes = <<99, 51, 10, 99, 52>>

\* C21: the relaunch action of the finish step closes the session before the
\* new one is opened; the new session is a fallback session whose primary
\* method is the method of the finish step left; every session but the latest
\* is closed.
C21_RelaunchClosesFirst ==
    /\ [](/\ \A sess \in 1..(current - 1) : closes[sess] >= 1
          /\ relaunch # None =>
                 /\ ~open /\ closes[current] = 1
                 /\ step = steps_finish(relaunch)
                 /\ relaunch = chosen /\ relaunch \in AuthenticatorType)
    /\ [][RelaunchFire =>
             /\ ~open /\ open'
             /\ Len(closes') = Len(closes) + 1
             /\ primaryMethod' = step.authenticator
             /\ step' = fallbackSteps_choose(step.authenticator)]_vars

C21_Witness ==
    /\ ~open /\ last = "relaunch" /\ relaunch = "sms"
    /\ step.key = "finish" /\ closes = <<1>>

\* C22: a session that has just been opened is in the state its primaryMethod
\* determines: the initial step, no error, the first candidate highlighted.
C22_FreshSessionState ==
    last = "open" =>
        /\ step = InitialStep(primaryMethod)
        /\ error = None
        /\ body = InitBody
        /\ selected = 0

\* the registry has no factory under the key
KeyAbsent(reg, key) ==
    IF reg = "steps" THEN key \notin StepKeys ELSE key \notin FallbackStepKeys

ModeRegistry(pm) == IF pm # None THEN "fallbackSteps" ELSE "steps"

\* a closure of onNext: the step and primaryMethod of a render
LooksUpInModeRegistry(s, pm) ==
    /\ s.reg = ModeRegistry(pm)
    /\ s.next # None =>
           /\ nextStepCreator(s, pm) = ModeRegistry(pm)
           /\ ~KeyAbsent(nextStepCreator(s, pm), s.next)
           /\ pm # None => s.next # "recoveryCodes"

\* C24: the primary method of a session never changes; the current step, and
\* the step of every pending call, comes from the registry of its session's
\* mode and names a successor that this registry has, or none; a fallback
\* session never asks for recoveryCodes.
C24_RegistryOfMode ==
    /\ [](/\ LooksUpInModeRegistry(step, primaryMethod)
          /\ \A i \in DOMAIN inflight :
                 /\ LooksUpInModeRegistry(inflight[i].step, inflight[i].primaryMethod)
                 /\ inflight[i].session = current =>
                        inflight[i].primaryMethod = primaryMethod)
    /\ [][primaryMethod' # primaryMethod =>
             ~open /\ open' /\ Len(closes') = Len(closes) + 1]_vars

C24_Witness ==
    /\ open /\ current = 2 /\ primaryMethod = "sms" /\ chosen = "email"
    /\ step = fallbackSteps_finish("email", "sms")
    /\ last = "enableResolved"

\* the method the choose step of the session offered under index k
Offered(k) == CatalogWithout(primaryMethod)[k + 1]

\* C25: the index forwarded by a choose step is within the list the step
\* offers, the method forwarded is the candidate under it, and the setup step
\* is created for that method.
C25_ForwardedMethodOffered ==
    last = "choose" =>
        /\ selected + 1 \in 1..Len(CatalogWithout(primaryMethod))
        /\ chosen = Offered(selected)
        /\ step.key = "setup" /\ step.authenticator = chosen

\* C26: once every codes call of the mounted recovery codes body has been
\* answered, the codes on display are the answer to the call made last.
C26_NewestAnswerDisplayed ==
    /\ open /\ step.key = "recoveryCodes"
    /\ newest.state = "resolved"
    /\ Pending({"codes"}) = {}
    => body.codes = newest.codes

\* C27: a closed primary session is on choose, closed by Cancel with no
\* enrolment call made, or on finish; it is never closed on setup or
\* recoveryCodes.
C27_PrimaryClosesOnChooseOrFinish ==
    PrimaryMode /\ ~open =>
        /\ step.key \in {"choose", "finish"}
        /\ step.key = "choose" =>
               /\ visited = <<"choose">> /\ enrolled = {}
               /\ \A i \in DOMAIN inflight :
                      inflight[i].session = current => ~IsEnable(inflight[i])
        /\ step.key = "finish" => IsPrefix(PrimaryPath, visited)

C27_Witness ==
    /\ PrimaryMode /\ ~open /\ step.key = "finish" /\ last = "done"
    /\ visited = PrimaryPath /\ closes[current] = 1

\* C28: Continue on the recovery codes step of a primary session leads to
\* finish only when codes are on display.
C28_FinishAfterCodesShown ==
    [][Continue /\ PrimaryMode /\ step'.key = "finish" => body.codes # <<>>]_vars

\* an action that advances the wizard, or tries to again, can be taken
CanGoOn ==
    ENABLED <<\/ \E index \in 0..2 : Select(index)
              \/ ChooseSubmit
              \/ SubmitCode("482193")
              \/ Respond
              \/ Continue>>_vars

\* C29: every session that is opened reaches its finish step and is closed
\* there; in every state of an open session before finish the user or the
\* adapter can go on.
C29_SessionsFinish ==
    /\ open ~> (~open /\ step.key = "finish")
    /\ [](open /\ step.key # "finish" => CanGoOn)

C29_Witness ==
    /\ ~open /\ current = 2 /\ step.key = "finish"
    /\ FallbackMode /\ last = "done"
    /\ visited = FallbackPath /\ closes = <<1, 1>>

====
